---- MODULE Spec2Model ----
(***************************************************************************)
(* ifshow: lists network interfaces and their IPv4/IPv6 addresses.         *)
(* A model of src/ifshow.c.  Standard output is a sequence of text lines;  *)
(* a socket address is a family tag with its address bytes in network      *)
(* order; the interface-address snapshot is the sequence of entries the    *)
(* linked list of getifaddrs holds.                                        *)
(***************************************************************************)
EXTENDS Integers, Sequences, FiniteSets, TLC

VARIABLES
    argv,          \* the argument vector, argv[1] the program name
    sys,           \* the entries the operating system would enumerate
    pc,            \* the position of the process
    ifaddr,        \* the snapshot getifaddrs returned
    snapshot,      \* "none", "live" or "freed"
    ifa,           \* cursor of the first loop of show_all_interfaces
    names,         \* names[0..name_count-1] of show_all_interfaces
    name_i,        \* index i of the printing loop of show_all_interfaces
    found,         \* the found flag of show_single_interface
    stdout,        \* the lines written to standard output
    stderr,        \* the lines written to standard error
    status,        \* << >> while running, <<exit status>> once terminated
    enumerations,  \* calls of getifaddrs
    releases,      \* calls of freeifaddrs
    stale,         \* TRUE once snapshot memory was read while not live
    prefix         \* << >>, or <<the value count_prefix_length returned>>

vars == <<argv, sys, pc, ifaddr, snapshot, ifa, names, name_i, found, stdout,
          stderr, status, enumerations, releases, stale, prefix>>

(***************************************************************************)
(* Program constants.                                                      *)
(***************************************************************************)
AF_INET == 2
AF_INET6 == 10
AF_PACKET == 17
NI_MAXHOST == 1025
MAX_IFS == 256
EXIT_SUCCESS == 0
EXIT_FAILURE == 1

(***************************************************************************)
(* Bounds of the model.                                                    *)
(***************************************************************************)
\* Longest enumerated raw entry list.
MaxEntries == 3
\* How far past MAX_IFS the lists of distinct interfaces go.
MaxOver == 1

\* The null pointer of type struct sockaddr *.
NULL == [sa_family |-> -1, data |-> <<>>]

SockAddr(family, bytes) == [sa_family |-> family, data |-> bytes]

(***************************************************************************)
(* inet_ntop, as the C library renders numeric addresses.                  *)
(***************************************************************************)
HexDigits == "0123456789abcdef"

RECURSIVE Hex(_)
\* sprintf("%x", n)
Hex(n) ==
    IF n < 16 THEN SubSeq(HexDigits, n + 1, n + 1)
    ELSE Hex(n \div 16) \o SubSeq(HexDigits, (n % 16) + 1, (n % 16) + 1)

\* inet_ntop(AF_INET, ...): dotted decimal of four bytes.
inet_ntop4(b) ==
    ToString(b[1]) \o "." \o ToString(b[2]) \o "." \o ToString(b[3]) \o "."
        \o ToString(b[4])

\* The eight 16-bit words of an IPv6 address.
Words6(b) == [i \in 1..8 |-> b[2 * i - 1] * 256 + b[2 * i]]

\* Length of the run of zero words starting at word i (0 if words[i] # 0).
RECURSIVE ZeroRun(_, _)
ZeroRun(w, i) ==
    IF i > 8 \/ w[i] # 0 THEN 0 ELSE 1 + ZeroRun(w, i + 1)

\* Start of the first longest run of at least two zero words, 0 if none.
BestBase(w) ==
    LET starts == {i \in 1..8 : ZeroRun(w, i) >= 2 /\ (i = 1 \/ w[i - 1] # 0)}
    IN  IF starts = {} THEN 0
        ELSE CHOOSE i \in starts :
                \A j \in starts :
                    \/ ZeroRun(w, i) > ZeroRun(w, j)
                    \/ (ZeroRun(w, i) = ZeroRun(w, j) /\ i <= j)

RECURSIVE Ntop6From(_, _, _, _, _)
\* The text of words i..8, given the compressed run [base, base + len).
Ntop6From(b, w, i, base, len) ==
    IF i > 8 THEN (IF base # 0 /\ base + len = 9 THEN ":" ELSE "")
    ELSE IF base # 0 /\ i >= base /\ i < base + len
         THEN (IF i = base THEN ":" ELSE "") \o Ntop6From(b, w, i + 1, base, len)
    ELSE IF i = 7 /\ base = 1 /\ (len = 6 \/ (len = 5 /\ w[6] = 65535))
         THEN ":" \o inet_ntop4(SubSeq(b, 13, 16))
    ELSE (IF i # 1 THEN ":" ELSE "") \o Hex(w[i])
             \o Ntop6From(b, w, i + 1, base, len)

\* inet_ntop(AF_INET6, ...): colon-hex with the longest zero run compressed.
inet_ntop6(b) ==
    LET w == Words6(b)
        base == BestBase(w)
        len == IF base = 0 THEN 0 ELSE ZeroRun(w, base)
    IN  Ntop6From(b, w, 1, base, len)

(***************************************************************************)
(* addr_to_string: rc 0 and the numeric text, or rc -1.                    *)
(***************************************************************************)
Converted(text, buflen) ==
    IF Len(text) + 1 <= buflen THEN [rc |-> 0, buf |-> text]
    ELSE [rc |-> -1, buf |-> ""]

addr_to_string(sa, buflen) ==
    IF sa = NULL \/ buflen = 0 THEN [rc |-> -1, buf |-> ""]
    ELSE IF sa.sa_family = AF_INET THEN Converted(inet_ntop4(sa.data), buflen)
    ELSE IF sa.sa_family = AF_INET6 THEN Converted(inet_ntop6(sa.data), buflen)
    ELSE [rc |-> -1, buf |-> ""]

(***************************************************************************)
(* count_prefix_length.                                                    *)
(***************************************************************************)
\* ntohl(nm4->sin_addr.s_addr): the 32-bit host value, held as its four
\* bytes from the most significant one (the value itself does not fit a
\* signed 32-bit integer).
ntohl(b) == <<b[1], b[2], b[3], b[4]>>

\* (m >> i) & 1U
Bit32(m, i) == (m[4 - (i \div 8)] \div (2 ^ (i % 8))) % 2

RECURSIVE CountBits4(_, _, _)
\* for (i = 31; i >= 0; --i) if ((m >> i) & 1U) count++; else break;
CountBits4(m, i, count) ==
    IF i < 0 THEN count
    ELSE IF Bit32(m, i) = 1 THEN CountBits4(m, i - 1, count + 1)
    ELSE count

RECURSIVE InnerBits6(_, _, _)
\* for (bit = 7; bit >= 0; --bit) if ((b >> bit) & 1U) count++; else return count;
\* ret tells whether the function returned inside the loop.
InnerBits6(b, bit, count) ==
    IF bit < 0 THEN [ret |-> FALSE, count |-> count]
    ELSE IF (b \div (2 ^ bit)) % 2 = 1 THEN InnerBits6(b, bit - 1, count + 1)
    ELSE [ret |-> TRUE, count |-> count]

RECURSIVE CountBits6(_, _, _)
\* for (i = 0; i < 16; ++i) { b = s6_addr[i]; ... } return count;
CountBits6(s6_addr, i, count) ==
    IF i >= 16 THEN count
    ELSE LET r == InnerBits6(s6_addr[i + 1], 7, count)
         IN  IF r.ret THEN r.count ELSE CountBits6(s6_addr, i + 1, r.count)

RECURSIVE PopCount4(_, _, _)
PopCount4(m, i, count) ==
    IF i < 0 THEN count
    ELSE PopCount4(m, i - 1, count + Bit32(m, i))

\* count_prefix_length with the scan not stopped at the first zero bit.
count_prefix_length_nobreak(netmask) ==
    IF netmask = NULL THEN -1
    ELSE IF netmask.sa_family = AF_INET
         THEN PopCount4(ntohl(netmask.data), 31, 0)
    ELSE IF netmask.sa_family = AF_INET6
         THEN CountBits6(netmask.data, 0, 0)
    ELSE -1

count_prefix_length(netmask) ==
    IF netmask = NULL THEN -1
    ELSE IF netmask.sa_family = AF_INET
         THEN CountBits4(ntohl(netmask.data), 31, 0)
    ELSE IF netmask.sa_family = AF_INET6
         THEN CountBits6(netmask.data, 0, 0)
    ELSE -1

(***************************************************************************)
(* Printing helpers: each returns the lines it writes to standard output.  *)
(***************************************************************************)
help ==
    << "Usage:",
       "  ifshow -a                     # Show all interfaces",
       "  ifshow -i <interface_name>    # Show specific interface",
       "",
       "Examples:",
       "  ifshow -a",
       "  ifshow -i eth0",
       "",
       "Notes:",
       "  Addresses include netmask as address/prefix.",
       "  IPv4 also shows dotted mask in parentheses.",
       "" >>

print_interface_header(ifname) ==
    IF ifname # "" THEN << ifname \o ":" >> ELSE << >>

\* print_address_bullet with the prefix-only form tested before the IPv4 form.
print_address_bullet_prefix_first(addr, netmask) ==
    IF addr = NULL THEN << >>
    ELSE
      LET a == addr_to_string(addr, NI_MAXHOST)
          family == addr.sa_family
          p == count_prefix_length(netmask)
      IN  IF a.rc # 0 THEN << >>
          ELSE IF p >= 0 THEN << " - " \o a.buf \o "/" \o ToString(p) >>
          ELSE IF /\ family = AF_INET
                  /\ netmask # NULL
                  /\ addr_to_string(netmask, NI_MAXHOST).rc = 0
               THEN << " - " \o a.buf \o "/" \o ToString(p) \o " ("
                          \o addr_to_string(netmask, NI_MAXHOST).buf \o ")" >>
          ELSE << " - " \o a.buf >>

print_address_bullet(addr, netmask) ==
    IF addr = NULL THEN << >>
    ELSE
      LET a == addr_to_string(addr, NI_MAXHOST)
          family == addr.sa_family
          p == count_prefix_length(netmask)
      IN  IF a.rc # 0 THEN << >>
          ELSE IF /\ family = AF_INET
                  /\ netmask # NULL
                  /\ addr_to_string(netmask, NI_MAXHOST).rc = 0
                  /\ p >= 0
               THEN << " - " \o a.buf \o "/" \o ToString(p) \o " ("
                          \o addr_to_string(netmask, NI_MAXHOST).buf \o ")" >>
          ELSE IF p >= 0 THEN << " - " \o a.buf \o "/" \o ToString(p) >>
          ELSE << " - " \o a.buf >>

(***************************************************************************)
(* The raw entry list (struct ifaddrs) and the loops over it.              *)
(***************************************************************************)
IfaEntry(name, addr, netmask) ==
    [ifa_name |-> name, ifa_addr |-> addr, ifa_netmask |-> netmask]

RECURSIVE Flatten(_, _, _)
\* ss[lo] \o ... \o ss[hi]; the range is halved to keep the evaluation shallow.
Flatten(ss, lo, hi) ==
    IF lo > hi THEN << >>
    ELSE IF lo = hi THEN ss[lo]
    ELSE LET mid == (lo + hi) \div 2
         IN  Flatten(ss, lo, mid) \o Flatten(ss, mid + 1, hi)

\* CollectStep without the address-family test.
CollectStep_any_family(acc, e) ==
    IF e.ifa_addr = NULL THEN acc
    ELSE LET seen == \E n \in 1..Len(acc) : acc[n] = e.ifa_name
         IN  IF ~seen /\ Len(acc) < MAX_IFS THEN Append(acc, e.ifa_name)
             ELSE acc

\* Body of the first loop of show_all_interfaces: names after visiting e.
CollectStep(acc, e) ==
    IF e.ifa_addr = NULL THEN acc
    ELSE IF e.ifa_addr.sa_family # AF_INET /\ e.ifa_addr.sa_family # AF_INET6
         THEN acc
    ELSE LET seen == \E n \in 1..Len(acc) : acc[n] = e.ifa_name
         IN  IF ~seen /\ Len(acc) < MAX_IFS THEN Append(acc, e.ifa_name)
             ELSE acc

\* Body of the address loop of both modes: what visiting e prints under ifname.
BulletStep(e, ifname) ==
    IF e.ifa_addr = NULL THEN << >>
    ELSE IF e.ifa_name # ifname THEN << >>
    ELSE IF e.ifa_addr.sa_family = AF_INET \/ e.ifa_addr.sa_family = AF_INET6
         THEN print_address_bullet(e.ifa_addr, e.ifa_netmask)
    ELSE << >>

\* The address loop of both modes over the whole list, in list order.
PrintMatching(list, ifname) ==
    Flatten([k \in 1..Len(list) |-> BulletStep(list[k], ifname)], 1, Len(list))

\* The found flag of show_single_interface after its loop.
FoundMatching(list, ifname) ==
    \E k \in 1..Len(list) :
        /\ list[k].ifa_addr # NULL
        /\ list[k].ifa_name = ifname
        /\ \/ list[k].ifa_addr.sa_family = AF_INET
           \/ list[k].ifa_addr.sa_family = AF_INET6

\* One pass of the printing loop of show_all_interfaces.
PrintGroup(list, ifname) ==
    print_interface_header(ifname) \o PrintMatching(list, ifname) \o << "" >>

\* What show_single_interface prints before it releases the snapshot.
PrintSingle(list, target) ==
    print_interface_header(target) \o PrintMatching(list, target)

NotFoundMessage(target) ==
    << "Interface '" \o target \o "' not found or has no IP." >>

(***************************************************************************)
(* main: the argument dispatch.  av is argv, av[1] the program name.       *)
(***************************************************************************)
\* Dispatch with '-a' accepted whatever follows it.
Dispatch_a_not_alone(av) ==
    LET argc == Len(av) IN
    IF argc < 2 \/ argc > 3
    THEN [to |-> "usage",
          out |-> << "",
                     "Unrecognized number of arguments. Please refer to the following:",
                     "" >> \o help]
    ELSE IF av[2] = "-a" THEN [to |-> "all", out |-> << >>]
    ELSE IF av[2] = "-i"
    THEN IF argc # 3
         THEN [to |-> "usage",
               out |-> << "Error: '-i' requires an interface name.", "" >> \o help]
         ELSE [to |-> "single", out |-> << >>]
    ELSE [to |-> "usage",
          out |-> << "Unrecognized argument: '" \o av[2]
                        \o "'. Please refer to the following:", "" >> \o help]

Dispatch(av) ==
    LET argc == Len(av) IN
    IF argc < 2 \/ argc > 3
    THEN [to |-> "usage",
          out |-> << "",
                     "Unrecognized number of arguments. Please refer to the following:",
                     "" >> \o help]
    ELSE IF av[2] = "-a"
    THEN IF argc # 2
         THEN [to |-> "usage",
               out |-> << "Error: '-a' must be used alone.", "" >> \o help]
         ELSE [to |-> "all", out |-> << >>]
    ELSE IF av[2] = "-i"
    THEN IF argc # 3
         THEN [to |-> "usage",
               out |-> << "Error: '-i' requires an interface name.", "" >> \o help]
         ELSE [to |-> "single", out |-> << >>]
    ELSE [to |-> "usage",
          out |-> << "Unrecognized argument: '" \o av[2]
                        \o "'. Please refer to the following:", "" >> \o help]

(***************************************************************************)
(* Inputs.                                                                 *)
(***************************************************************************)
Addr4 == SockAddr(AF_INET, <<192, 0, 2, 10>>)
Mask4 == SockAddr(AF_INET, <<255, 255, 255, 0>>)
Addr6 == SockAddr(AF_INET6, <<32, 1, 13, 184, 0, 0, 0, 0, 0, 0, 0, 0, 0, 0, 0, 1>>)
Mask6 == SockAddr(AF_INET6,
                  <<255, 255, 255, 255, 255, 255, 255, 255, 0, 0, 0, 0, 0, 0, 0, 0>>)
AddrLink == SockAddr(AF_PACKET, <<2, 0, 94, 16, 0, 1>>)

IfNames == {"eth0", "lo"}
TargetNames == IfNames \cup {"wlan0", ""}

\* The (address, netmask) pairs an enumerated entry carries.
SockPairs ==
    { <<Addr4, Mask4>>, <<Addr6, Mask6>>, <<Addr4, NULL>>, <<AddrLink, NULL>>,
      <<NULL, NULL>> }

Entries == {IfaEntry(n, p[1], p[2]) : n \in IfNames, p \in SockPairs}

SmallLists == UNION {[1..n -> Entries] : n \in 0..MaxEntries}

\* n interfaces with distinct names, one IPv4 address each.
ManyInterfaces(n) == [k \in 1..n |-> IfaEntry("if" \o ToString(k), Addr4, Mask4)]

LargeLists == {ManyInterfaces(n) : n \in (MAX_IFS - 1)..(MAX_IFS + MaxOver)}

ArgVectors ==
    { << >>, <<"ifshow">>, <<"ifshow", "-a">>, <<"ifshow", "-a", "eth0">>,
      <<"ifshow", "-i">>, <<"ifshow", "-x">>, <<"ifshow", "-h", "eth0">>,
      <<"ifshow", "-i", "eth0", "lo">>, <<"ifshow", "-a", "-i", "eth0">> }
    \cup {<<"ifshow", "-i", t>> : t \in TargetNames}

(***************************************************************************)
(* The program.                                                            *)
(***************************************************************************)
Idle ==
    /\ ifaddr = << >>
    /\ snapshot = "none"
    /\ ifa = 0
    /\ names = << >>
    /\ name_i = 0
    /\ found = FALSE
    /\ stdout = << >>
    /\ stderr = << >>
    /\ status = << >>
    /\ enumerations = 0
    /\ releases = 0
    /\ stale = FALSE
    /\ prefix = << >>

Init ==
    /\ argv \in ArgVectors
    /\ sys \in SmallLists \cup LargeLists
    /\ pc = "main"
    /\ Idle

\* main up to the call of a show function, or the usage exit.
Main ==
    /\ pc = "main"
    /\ LET d == Dispatch(argv) IN
         /\ stdout' = stdout \o d.out
         /\ IF d.to = "usage"
            THEN pc' = "exited" /\ status' = <<EXIT_FAILURE>>
            ELSE /\ pc' = (IF d.to = "all" THEN "all_getifaddrs"
                           ELSE "single_getifaddrs")
                 /\ status' = status
    /\ UNCHANGED <<argv, sys, ifaddr, snapshot, ifa, names, name_i, found, stderr,
                   enumerations, releases, stale, prefix>>

\* The messages of the C library for errno 0, 1, ..., in that order
\* (message of errno e at position e + 1).
ErrnoMessages ==
    <<
      "Success", "Operation not permitted", "No such file or directory",
      "No such process", "Interrupted system call", "Input/output error",
      "No such device or address", "Argument list too long",
      "Exec format error", "Bad file descriptor", "No child processes",
      "Resource temporarily unavailable", "Cannot allocate memory",
      "Permission denied", "Bad address", "Block device required",
      "Device or resource busy", "File exists", "Invalid cross-device link",
      "No such device", "Not a directory", "Is a directory",
      "Invalid argument", "Too many open files in system",
      "Too many open files", "Inappropriate ioctl for device",
      "Text file busy", "File too large", "No space left on device",
      "Illegal seek", "Read-only file system", "Too many links",
      "Broken pipe", "Numerical argument out of domain",
      "Numerical result out of range", "Resource deadlock avoided",
      "File name too long", "No locks available", "Function not implemented",
      "Directory not empty", "Too many levels of symbolic links",
      "Unknown error 41", "No message of desired type", "Identifier removed",
      "Channel number out of range", "Level 2 not synchronized",
      "Level 3 halted", "Level 3 reset", "Link number out of range",
      "Protocol driver not attached", "No CSI structure available",
      "Level 2 halted", "Invalid exchange", "Invalid request descriptor",
      "Exchange full", "No anode", "Invalid request code", "Invalid slot",
      "Unknown error 58", "Bad font file format", "Device not a stream",
      "No data available", "Timer expired", "Out of streams resources",
      "Machine is not on the network", "Package not installed",
      "Object is remote", "Link has been severed", "Advertise error",
      "Srmount error", "Communication error on send", "Protocol error",
      "Multihop attempted", "RFS specific error", "Bad message",
      "Value too large for defined data type", "Name not unique on network",
      "File descriptor in bad state", "Remote address changed",
      "Can not access a needed shared library",
      "Accessing a corrupted shared library",
      ".lib section in a.out corrupted",
      "Attempting to link in too many shared libraries",
      "Cannot exec a shared library directly",
      "Invalid or incomplete multibyte or wide character",
      "Interrupted system call should be restarted", "Streams pipe error",
      "Too many users", "Socket operation on non-socket",
      "Destination address required", "Message too long",
      "Protocol wrong type for socket", "Protocol not available",
      "Protocol not supported", "Socket type not supported",
      "Operation not supported", "Protocol family not supported",
      "Address family not supported by protocol", "Address already in use",
      "Cannot assign requested address", "Network is down",
      "Network is unreachable", "Network dropped connection on reset",
      "Software caused connection abort", "Connection reset by peer",
      "No buffer space available", "Transport endpoint is already connected",
      "Transport endpoint is not connected",
      "Cannot send after transport endpoint shutdown",
      "Too many references: cannot splice", "Connection timed out",
      "Connection refused", "Host is down", "No route to host",
      "Operation already in progress", "Operation now in progress",
      "Stale file handle", "Structure needs cleaning",
      "Not a XENIX named type file", "No XENIX semaphores available",
      "Is a named type file", "Remote I/O error", "Disk quota exceeded",
      "No medium found", "Wrong medium type", "Operation canceled",
      "Required key not available", "Key has expired",
      "Key has been revoked", "Key was rejected by service", "Owner died",
      "State not recoverable", "Operation not possible due to RF-kill",
      "Memory page has hardware error"
    >>

\* strerror(errnum)
strerror(errnum) ==
    IF errnum + 1 \in DOMAIN ErrnoMessages THEN ErrnoMessages[errnum + 1]
    ELSE "Unknown error " \o ToString(errnum)

\* The values of errno a failed getifaddrs can leave: those of socket, bind,
\* getsockname, sendto, recvmsg and malloc, or the value errno held before.
GetifaddrsErrors == {e - 1 : e \in DOMAIN ErrnoMessages}

\* perror(s): the line "s: <strerror(errno)>" on standard error.
perror(s, errno) == << s \o ": " \o strerror(errno) >>

\* getifaddrs(&ifaddr), with the failure exit that follows it in both modes.
Getifaddrs(at, next) ==
    /\ pc = at
    /\ enumerations' = enumerations + 1
    /\ \/ /\ ifaddr' = sys
          /\ snapshot' = "live"
          /\ pc' = next
          /\ UNCHANGED <<stderr, status>>
       \/ \E errno \in GetifaddrsErrors :
             /\ stderr' = stderr \o perror("getifaddrs", errno)
             /\ status' = <<EXIT_FAILURE>>
             /\ pc' = "exited"
             /\ UNCHANGED <<ifaddr, snapshot>>
    /\ UNCHANGED <<argv, sys, ifa, names, name_i, found, stdout, releases, stale,
                   prefix>>

\* freeifaddrs(ifaddr)
Freeifaddrs(at, next) ==
    /\ pc = at
    /\ snapshot' = "freed"
    /\ releases' = releases + 1
    /\ pc' = next
    /\ UNCHANGED <<argv, sys, ifaddr, ifa, names, name_i, found, stdout, stderr,
                   status, enumerations, stale, prefix>>

GetifaddrsAll == Getifaddrs("all_getifaddrs", "all_collect_init")

\* names[], name_count = 0 and ifa = ifaddr.
AllCollectInit ==
    /\ pc = "all_collect_init"
    /\ names' = << >>
    /\ ifa' = 1
    /\ pc' = "all_collect"
    /\ UNCHANGED <<argv, sys, ifaddr, snapshot, name_i, found, stdout, stderr,
                   status, enumerations, releases, stale, prefix>>

\* One test of the first loop of show_all_interfaces, with its body.
AllCollect ==
    /\ pc = "all_collect"
    /\ IF ifa <= Len(ifaddr)
       THEN /\ names' = CollectStep(names, ifaddr[ifa])
            /\ ifa' = ifa + 1
            /\ stale' = (stale \/ snapshot # "live")
            /\ UNCHANGED <<pc, name_i>>
       ELSE /\ pc' = "all_print"
            /\ name_i' = 1
            /\ UNCHANGED <<names, ifa, stale>>
    /\ UNCHANGED <<argv, sys, ifaddr, snapshot, found, stdout, stderr, status,
                   enumerations, releases, prefix>>

\* One test of the printing loop of show_all_interfaces, with its body.
AllPrint ==
    /\ pc = "all_print"
    /\ IF name_i <= Len(names)
       THEN /\ stdout' = stdout \o PrintGroup(ifaddr, names[name_i])
            /\ name_i' = name_i + 1
            /\ stale' = (stale \/ snapshot # "live")
            /\ UNCHANGED pc
       ELSE /\ pc' = "all_free"
            /\ UNCHANGED <<stdout, name_i, stale>>
    /\ UNCHANGED <<argv, sys, ifaddr, snapshot, ifa, names, found, stderr,
                   status, enumerations, releases, prefix>>

\* show_all_interfaces returning without freeifaddrs.
AllFree_skipped ==
    /\ pc = "all_free"
    /\ pc' = "main_return"
    /\ UNCHANGED <<argv, sys, ifaddr, snapshot, ifa, names, name_i, found,
                   stdout, stderr, status, enumerations, releases, stale, prefix>>

AllFree == Freeifaddrs("all_free", "main_return")

GetifaddrsSingle == Getifaddrs("single_getifaddrs", "single_scan")

\* The header and the loop of show_single_interface.
SingleScan ==
    /\ pc = "single_scan"
    /\ stdout' = stdout \o PrintSingle(ifaddr, argv[3])
    /\ found' = FoundMatching(ifaddr, argv[3])
    /\ stale' = (stale \/ snapshot # "live")
    /\ pc' = "single_free"
    /\ UNCHANGED <<argv, sys, ifaddr, snapshot, ifa, names, name_i, stderr, status,
                   enumerations, releases, prefix>>

SingleFree == Freeifaddrs("single_free", "single_report")

\* if (!found) printf("Interface '%s' not found or has no IP.\n", ...)
SingleReport ==
    /\ pc = "single_report"
    /\ stdout' = (IF ~found THEN stdout \o NotFoundMessage(argv[3]) ELSE stdout)
    /\ pc' = "main_return"
    /\ UNCHANGED <<argv, sys, ifaddr, snapshot, ifa, names, name_i, found, stderr,
                   status, enumerations, releases, stale, prefix>>

\* return EXIT_SUCCESS;
MainReturn ==
    /\ pc = "main_return"
    /\ status' = <<EXIT_SUCCESS>>
    /\ pc' = "exited"
    /\ UNCHANGED <<argv, sys, ifaddr, snapshot, ifa, names, name_i, found, stdout,
                   stderr, enumerations, releases, stale, prefix>>

Next ==
    \/ Main
    \/ GetifaddrsAll
    \/ AllCollectInit
    \/ AllCollect
    \/ AllPrint
    \/ AllFree
    \/ GetifaddrsSingle
    \/ SingleScan
    \/ SingleFree
    \/ SingleReport
    \/ MainReturn

Spec == Init /\ [][Next]_vars

(***************************************************************************)
(* The formatter on its own: one address and one netmask, every pairing    *)
(* of families, passed to count_prefix_length and print_address_bullet.    *)
(***************************************************************************)
\* Byte of a contiguous mask that still has r one-bits to place.
PrefixByte(r) == IF r >= 8 THEN 255 ELSE IF r <= 0 THEN 0 ELSE 256 - 2 ^ (8 - r)

\* The contiguous netmask of n one-bits in len bytes.
PrefixMask(family, len, n) ==
    SockAddr(family, [k \in 1..len |-> PrefixByte(n - 8 * (k - 1))])

Zeros(n) == [k \in 1..n |-> 0]

FmtAddrs ==
    { NULL, Addr4, AddrLink, Addr6,
      SockAddr(AF_INET, <<0, 0, 0, 0>>),
      SockAddr(AF_INET6, Zeros(16)),
      SockAddr(AF_INET6, Zeros(15) \o <<1>>),
      SockAddr(AF_INET6, <<254, 128>> \o Zeros(13) \o <<1>>),
      SockAddr(AF_INET6, Zeros(10) \o <<255, 255, 192, 0, 2, 1>>),
      SockAddr(AF_INET6, <<32, 1, 13, 184, 0, 0, 0, 0, 0, 1, 0, 0, 0, 0, 0, 1>>) }

MalformedMask4 == SockAddr(AF_INET, <<255, 0, 255, 0>>)

FmtMasks ==
    { NULL, MalformedMask4,
      SockAddr(AF_PACKET, <<255, 255, 255, 0, 0, 0>>),
      SockAddr(AF_INET, <<0, 255, 255, 255>>),
      SockAddr(AF_INET, <<127, 255, 255, 255>>),
      SockAddr(AF_INET, <<255, 254, 255, 0>>),
      SockAddr(AF_INET, <<255, 255, 255, 1>>),
      SockAddr(AF_INET6, <<255, 255, 0, 0, 255, 255>> \o Zeros(10)),
      SockAddr(AF_INET6, <<255, 251>> \o [k \in 1..14 |-> 255]),
      SockAddr(AF_INET6, Zeros(15) \o <<255>>) }
    \cup {PrefixMask(AF_INET, 4, n) : n \in 0..32}
    \cup {PrefixMask(AF_INET6, 16, n) : n \in 0..128}

InitFmt ==
    /\ argv = << >>
    /\ sys \in {<<IfaEntry("eth0", a, m)>> : a \in FmtAddrs, m \in FmtMasks}
    /\ pc = "fmt"
    /\ Idle

\* prefix = count_prefix_length(netmask)
CallCountPrefix ==
    /\ pc = "fmt"
    /\ prefix' = <<count_prefix_length(sys[1].ifa_netmask)>>
    /\ pc' = "counted"
    /\ UNCHANGED <<argv, sys, ifaddr, snapshot, ifa, names, name_i, found,
                   stdout, stderr, status, enumerations, releases, stale>>

\* print_address_bullet(addr, netmask)
CallPrintBullet ==
    /\ pc = "counted"
    /\ stdout' = stdout \o print_address_bullet(sys[1].ifa_addr, sys[1].ifa_netmask)
    /\ pc' = "printed"
    /\ UNCHANGED <<argv, sys, ifaddr, snapshot, ifa, names, name_i, found,
                   stderr, status, enumerations, releases, stale, prefix>>

NextFmt == CallCountPrefix \/ CallPrintBullet

SpecFmt == InitFmt /\ [][NextFmt]_vars

(***************************************************************************)
(* Vocabulary of the properties.                                           *)
(***************************************************************************)
IsIP(sa) == sa # NULL /\ sa.sa_family \in {AF_INET, AF_INET6}

\* The bits of a netmask, most significant bit of the first byte first.
MaskBits(sa) ==
    [k \in 1..(8 * Len(sa.data)) |->
        (sa.data[((k - 1) \div 8) + 1] \div (2 ^ (7 - ((k - 1) % 8)))) % 2]

\* The number of one-bits before the first zero bit.
LeadingOnes(bits) ==
    CHOOSE n \in 0..Len(bits) :
        /\ \A k \in 1..n : bits[k] = 1
        /\ n = Len(bits) \/ bits[n + 1] = 0

\* The numeric text of an IP address.
NumericText(sa) ==
    IF sa.sa_family = AF_INET THEN inet_ntop4(sa.data) ELSE inet_ntop6(sa.data)

Contains(text, c) == \E k \in 1..Len(text) : SubSeq(text, k, k) = c

StartsWith(text, head) ==
    Len(head) <= Len(text) /\ SubSeq(text, 1, Len(head)) = head

\* The text between the parentheses of a line that ends in ")".
Parenthetical(line) ==
    LET open == CHOOSE k \in 1..Len(line) : SubSeq(line, k, k) = "("
    IN  SubSeq(line, open + 1, Len(line) - 1)

IsDottedDecimal(text) ==
    /\ \A k \in 1..Len(text) :
          SubSeq(text, k, k) \in
              {"0", "1", "2", "3", "4", "5", "6", "7", "8", "9", "."}
    /\ Cardinality({k \in 1..Len(text) : SubSeq(text, k, k) = "."}) = 3

FmtAddr == sys[1].ifa_addr
FmtMask == sys[1].ifa_netmask

(***************************************************************************)
(* C5: count_prefix_length returns, for every IPv4 and every IPv6 netmask, *)
(* the number of one-bits from the most significant bit up to the first    *)
(* zero bit, whatever follows that zero: 255.255.255.0 gives 24,           *)
(* 255.255.255.255 gives 32, 0.0.0.0 gives 0, ffff:ffff:ffff:ffff:: gives  *)
(* 64 and the malformed 255.0.255.0 gives 8.                               *)
(***************************************************************************)
PrefixIsLeadingOnes ==
    (pc \in {"counted", "printed"} /\ IsIP(FmtMask)) =>
        /\ prefix = <<LeadingOnes(MaskBits(FmtMask))>>
        /\ FmtMask = Mask4 => prefix = <<24>>
        /\ FmtMask = SockAddr(AF_INET, <<255, 255, 255, 255>>) => prefix = <<32>>
        /\ FmtMask = SockAddr(AF_INET, <<0, 0, 0, 0>>) => prefix = <<0>>
        /\ FmtMask = Mask6 => prefix = <<64>>
        /\ FmtMask = MalformedMask4 => prefix = <<8>>

\* The malformed mask 255.0.255.0 was measured as 8.
MalformedMaskMeasured ==
    pc = "counted" /\ FmtMask = MalformedMask4 /\ prefix = <<8>>

(***************************************************************************)
(* C6: for an address that converts to text, print_address_bullet writes   *)
(* exactly one line: the IPv4 form with prefix and parenthetical mask when *)
(* the address is IPv4 and the netmask is measurable and renderable;       *)
(* otherwise the prefix form when the netmask is measurable (an IPv6       *)
(* address never gets a parenthetical); otherwise, the netmask being       *)
(* absent or of another family, the bare address without a slash.         *)
(***************************************************************************)
LineFormPrecedence ==
    (pc = "printed" /\ IsIP(FmtAddr)) =>
        LET a == NumericText(FmtAddr)
            measurable == IsIP(FmtMask)
            p == ToString(LeadingOnes(MaskBits(FmtMask)))
        IN  /\ Len(stdout) = 1
            /\ stdout[1] =
                 IF FmtAddr.sa_family = AF_INET /\ measurable
                 THEN " - " \o a \o "/" \o p \o " (" \o NumericText(FmtMask) \o ")"
                 ELSE IF measurable THEN " - " \o a \o "/" \o p
                 ELSE " - " \o a
            /\ FmtAddr.sa_family = AF_INET6 => ~Contains(stdout[1], "(")
            /\ ~measurable => ~Contains(stdout[1], "/")

\* The IPv4 form was printed for 192.0.2.10 with 255.255.255.0.
Ipv4FormPrinted ==
    /\ pc = "printed"
    /\ FmtAddr = Addr4
    /\ FmtMask = Mask4
    /\ stdout = << " - 192.0.2.10/24 (255.255.255.0)" >>

(***************************************************************************)
(* C9: every printed line that carries a prefix has it within 0..32 for an *)
(* IPv4 address, with a dotted-decimal mask in the parentheses, and within *)
(* 0..128 for an IPv6 address, whatever the family of the netmask.         *)
(***************************************************************************)
PrefixWithinFamilyRange ==
    (pc = "printed" /\ IsIP(FmtAddr) /\ Len(stdout) = 1
        /\ Contains(stdout[1], "/")) =>
        LET a == NumericText(FmtAddr) IN
        IF FmtAddr.sa_family = AF_INET
        THEN /\ \E p \in 0..32 :
                   StartsWith(stdout[1], " - " \o a \o "/" \o ToString(p) \o " (")
             /\ IsDottedDecimal(Parenthetical(stdout[1]))
        ELSE \E p \in 0..128 : stdout[1] = " - " \o a \o "/" \o ToString(p)

(***************************************************************************)
(* Vocabulary of the properties of the two lookup modes.                   *)
(***************************************************************************)
ModeAll == argv = <<"ifshow", "-a">>
ModeSingle == Len(argv) = 3 /\ argv[2] = "-i"
Target == argv[3]
Completed == pc = "exited" /\ status = <<EXIT_SUCCESS>>

\* An entry that belongs to a group: a non-null IPv4 or IPv6 address.
Qualifies(e) == IsIP(e.ifa_addr)

\* The qualifying entries of one interface, in raw-list order.
GroupOf(list, name) ==
    SelectSeq(list, LAMBDA e : Qualifies(e) /\ e.ifa_name = name)

\* The names of the qualifying entries, each once, in order of first appearance.
FirstSeen(list) ==
    LET first(k) ==
            /\ Qualifies(list[k])
            /\ \A j \in 1..(k - 1) :
                  ~(Qualifies(list[j]) /\ list[j].ifa_name = list[k].ifa_name)
        idx == SelectSeq([k \in 1..Len(list) |-> k], first)
    IN  [n \in 1..Len(idx) |-> list[idx[n]].ifa_name]

\* The address line of one qualifying entry.
AddressLine(e) == print_address_bullet(e.ifa_addr, e.ifa_netmask)[1]

\* A rendered group: header, one line per address, blank separator.
GroupShape(list, name) ==
    LET g == GroupOf(list, name)
    IN  << name \o ":" >> \o [k \in 1..Len(g) |-> AddressLine(g[k])] \o << "" >>

GroupsShape(list, nm) ==
    Flatten([n \in 1..Len(nm) |-> GroupShape(list, nm[n])], 1, Len(nm))

IsAddressLine(line) == StartsWith(line, " - ")
IsHeaderLine(line) == line # "" /\ ~IsAddressLine(line)
Headers(out) == SelectSeq(out, IsHeaderLine)

(***************************************************************************)
(* C1: single-interface mode on a name without any qualifying entry        *)
(* writes exactly the "not found" line to standard output, and no          *)
(* interface header.                                                       *)
(***************************************************************************)
NotFoundOnly ==
    (ModeSingle /\ Completed /\ GroupOf(sys, Target) = << >>) =>
        stdout = << "Interface '" \o Target \o "' not found or has no IP." >>

(***************************************************************************)
(* C2: every rendered group is one header line, one line per qualifying    *)
(* address of the interface in raw-list order, and one blank separator     *)
(* line: each group of all-interfaces mode, and the group of               *)
(* single-interface mode when the name has a qualifying entry.             *)
(***************************************************************************)
GroupsHaveOneShape ==
    Completed =>
        /\ ModeAll => stdout = GroupsShape(sys, names)
        /\ (ModeSingle /\ GroupOf(sys, Target) # << >>) =>
              stdout = GroupShape(sys, Target)

(***************************************************************************)
(* C3: all-interfaces mode renders every group: each interface with a      *)
(* qualifying entry gets a header, and each qualifying entry its line      *)
(* under that header, however many distinct interfaces there are.          *)
(***************************************************************************)
EveryGroupRendered ==
    (ModeAll /\ Completed) =>
        \A k \in 1..Len(sys) :
            Qualifies(sys[k]) =>
                \E h \in 1..Len(stdout) :
                    /\ stdout[h] = sys[k].ifa_name \o ":"
                    /\ \E l \in (h + 1)..Len(stdout) :
                          /\ stdout[l] = AddressLine(sys[k])
                          /\ \A m \in (h + 1)..l : stdout[m] # ""

(***************************************************************************)
(* C4: in all-interfaces mode the headers printed are the distinct names   *)
(* of the qualifying entries in order of first appearance, none twice, and *)
(* every qualifying entry is under its name's header in raw-list order.    *)
(***************************************************************************)
GroupsInFirstSeenOrder ==
    (ModeAll /\ Completed) =>
        /\ Headers(stdout) =
              [n \in 1..Len(FirstSeen(sys)) |-> FirstSeen(sys)[n] \o ":"]
        /\ stdout = GroupsShape(sys, FirstSeen(sys))

(***************************************************************************)
(* C7: an entry with a null address or a family other than IPv4 and IPv6   *)
(* produces no address line, causes no header in all-interfaces mode and   *)
(* does not count as found in single-interface mode; the output is what    *)
(* the same list without these entries gives.                              *)
(***************************************************************************)
FamilyFilter ==
    LET ip == SelectSeq(sys, Qualifies)
        bullets == {l \in 1..Len(stdout) : IsAddressLine(stdout[l])}
    IN  /\ (ModeAll /\ pc \in {"all_print", "all_free", "main_return", "exited"}
               /\ snapshot # "none") =>
              \A n \in 1..Len(names) : GroupOf(sys, names[n]) # << >>
        /\ (ModeAll /\ Completed) =>
              /\ stdout = Flatten([n \in 1..Len(names) |-> PrintGroup(ip, names[n])],
                                  1, Len(names))
              /\ Cardinality(bullets) =
                    Cardinality({k \in 1..Len(ip) :
                                    \E n \in 1..Len(names) : names[n] = ip[k].ifa_name})
        /\ (ModeSingle /\ pc \in {"single_free", "single_report", "main_return"}) =>
              (found <=> GroupOf(sys, Target) # << >>)
        /\ (ModeSingle /\ Completed) =>
              /\ stdout = PrintSingle(ip, Target)
                    \o (IF GroupOf(ip, Target) = << >>
                        THEN << "Interface '" \o Target \o "' not found or has no IP." >>
                        ELSE << >>)
              /\ Cardinality(bullets) = Len(GroupOf(sys, Target))

\* All-interfaces mode finished on a list whose second interface has only a
\* link-layer address: that interface has no header.
LinkOnlyInterfaceSkipped ==
    /\ ModeAll
    /\ Completed
    /\ sys = << IfaEntry("eth0", Addr4, Mask4), IfaEntry("lo", AddrLink, NULL) >>
    /\ stdout = << "eth0:", " - 192.0.2.10/24 (255.255.255.0)", "" >>

\* The two accepted shapes of the argument vector.
ValidArgs ==
    \/ (Len(argv) = 2 /\ argv[2] = "-a")
    \/ (Len(argv) = 3 /\ argv[2] = "-i")

(***************************************************************************)
(* C8: getifaddrs is called only for '-a' alone or '-i' with exactly one   *)
(* name; every other argument vector prints the usage help to standard     *)
(* output, enumerates nothing and terminates with failure status; a valid  *)
(* invocation whose lookup completes terminates with success status, also  *)
(* when it reports "not found".                                            *)
(***************************************************************************)
ArgumentDispatch ==
    /\ enumerations > 0 => ValidArgs
    /\ (pc # "main" /\ ~ValidArgs) =>
          /\ pc = "exited"
          /\ status = <<EXIT_FAILURE>>
          /\ enumerations = 0
          /\ Len(stdout) > Len(help)
          /\ SubSeq(stdout, Len(stdout) - Len(help) + 1, Len(stdout)) = help
          /\ stdout[Len(stdout) - Len(help) + 1] = "Usage:"
          /\ stderr = << >>
    /\ (pc = "exited" /\ ValidArgs /\ snapshot # "none") =>
          status = <<EXIT_SUCCESS>>
    /\ (pc = "exited" /\ ModeSingle /\ snapshot # "none" /\ ~found) =>
          /\ status = <<EXIT_SUCCESS>>
          /\ stdout[Len(stdout)] = "Interface '" \o Target \o "' not found or has no IP."

\* '-a' followed by another argument ended in the usage error.
ExtraArgumentRejected ==
    /\ argv = <<"ifshow", "-a", "eth0">>
    /\ pc = "exited"
    /\ status = <<EXIT_FAILURE>>
    /\ stdout[1] = "Error: '-a' must be used alone."

(***************************************************************************)
(* C10: a snapshot obtained from getifaddrs is released exactly once       *)
(* before the process terminates, nothing of it is read after the          *)
(* release, and when getifaddrs fails the process terminates with failure  *)
(* status, having printed no line and released nothing.                    *)
(***************************************************************************)
SnapshotLifecycle ==
    /\ ~stale
    /\ releases = (IF snapshot = "freed" THEN 1 ELSE 0)
    /\ enumerations <= 1
    /\ pc = "exited" => snapshot # "live"
    /\ (pc = "exited" /\ enumerations = 1 /\ snapshot = "none") =>
          /\ status = <<EXIT_FAILURE>>
          /\ stdout = << >>
          /\ releases = 0
    /\ (pc = "exited" /\ enumerations = 1 /\ snapshot # "none") =>
          /\ snapshot = "freed"
          /\ releases = 1

\* Single-interface mode terminated after releasing its snapshot once.
SnapshotReleasedOnce ==
    /\ ModeSingle
    /\ Completed
    /\ snapshot = "freed"
    /\ releases = 1
    /\ sys # << >>

====
